---------------------------- MODULE Spec2Model ----------------------------
(***************************************************************************)
(* Model of src/calc_ccf.py: the CCF (cancer cell fraction) histogram of a *)
(* mutation from local copy numbers, read counts and purity.               *)
(*                                                                         *)
(* Numbers.  Every real of the program is modelled as an exact rational    *)
(* <<n, d>> in lowest terms with d > 0, extended with the three special    *)
(* values numpy produces instead of raising: NaN = <<0,0>>, +inf = <<1,0>>,*)
(* -inf = <<-1,0>>.  Floating-point rounding is not modelled.              *)
(***************************************************************************)
EXTENDS Integers, Sequences, FiniteSets

----------------------------------------------------------------------------
(* Bounds of the model. *)

\* grid_size ranges over 1..MaxGrid
MaxGrid == 3
\* the total coverage alt_cnt + ref_cnt ranges over 0..MaxCov
MaxCov == 1
\* local copy numbers k/2 for k in 0..MaxCNHalves
MaxCNHalves == 5
\* multiplicities 0..MaxMult of a direct call of a distribution builder
MaxMult == 2

(* The literal 100 of calc_ccf (argmax / 100.) and of update_ccf_hist
   (int(subclonal_frac * 100)). *)
Hundred == 100

----------------------------------------------------------------------------
(* Extended rational arithmetic. *)

Abs(i) == IF i < 0 THEN 0 - i ELSE i

RECURSIVE GCD(_, _)
GCD(a, b) == IF b = 0 THEN a ELSE GCD(b, a % b)

NaN == <<0, 0>>
Inf == <<1, 0>>
NegInf == <<-1, 0>>
Zero == <<0, 1>>
One == <<1, 1>>

IsNaN(x) == x = NaN
IsInf(x) == x[2] = 0 /\ x[1] # 0
IsFinite(x) == x[2] > 0
Sign(x) == IF x[1] > 0 THEN 1 ELSE IF x[1] < 0 THEN -1 ELSE 0

\* n/d with d > 0, in lowest terms
Frac(n, d) == LET g == GCD(Abs(n), d) IN <<n \div g, d \div g>>
Num(i) == <<i, 1>>

RNeg(x) == <<0 - x[1], x[2]>>

RAdd(x, y) ==
    IF IsNaN(x) \/ IsNaN(y) THEN NaN
    ELSE IF IsInf(x) THEN (IF IsInf(y) /\ y # x THEN NaN ELSE x)
    ELSE IF IsInf(y) THEN y
    ELSE LET g == GCD(x[2], y[2])
         IN  Frac(x[1] * (y[2] \div g) + y[1] * (x[2] \div g), (x[2] \div g) * y[2])

RSub(x, y) == RAdd(x, RNeg(y))

RMul(x, y) ==
    IF IsNaN(x) \/ IsNaN(y) THEN NaN
    ELSE IF IsInf(x) \/ IsInf(y)
         THEN (IF Sign(x) * Sign(y) = 0 THEN NaN ELSE <<Sign(x) * Sign(y), 0>>)
    ELSE LET g1 == GCD(Abs(x[1]), y[2])
             g2 == GCD(Abs(y[1]), x[2])
         IN  <<(x[1] \div g1) * (y[1] \div g2), (x[2] \div g2) * (y[2] \div g1)>>

\* numpy's true division: x/0 is nan (x = 0) or +-inf, never an exception
RDiv(x, y) ==
    IF IsNaN(x) \/ IsNaN(y) THEN NaN
    ELSE IF IsInf(y) THEN (IF IsInf(x) THEN NaN ELSE Zero)
    ELSE IF y = Zero THEN (IF Sign(x) = 0 THEN NaN ELSE <<Sign(x), 0>>)
    ELSE IF IsInf(x) THEN <<Sign(x) * Sign(y), 0>>
    ELSE RMul(x, IF y[1] > 0 THEN <<y[2], y[1]>> ELSE <<0 - y[2], 0 - y[1]>>)

\* x < y on finite values and infinities (any comparison with nan is false)
RLess(x, y) ==
    IF IsNaN(x) \/ IsNaN(y) THEN FALSE
    ELSE IF IsInf(x) \/ IsInf(y)
         THEN (IF IsInf(x) /\ IsInf(y) THEN x[1] < y[1]
               ELSE IF IsInf(x) THEN x[1] < 0 ELSE y[1] > 0)
    ELSE x[1] * y[2] < y[1] * x[2]

RLeq(x, y) == ~IsNaN(x) /\ ~IsNaN(y) /\ ~RLess(y, x)

\* x ** k for an integer k >= 0, with 0 ** 0 = 1
RECURSIVE RPow(_, _)
RPow(x, k) == IF k = 0 THEN One ELSE RMul(x, RPow(x, k - 1))

\* floor and ceiling of a finite value, as integers
Floor(x) == x[1] \div x[2]
Ceil(x) == 0 - ((0 - x[1]) \div x[2])

\* Python truthiness of a float: everything but 0.0 (nan included)
Truthy(x) == x # Zero

IsInteger(x) == x[2] = 1

\* Python's int(x): truncation toward zero
IntTrunc(x) == IF x[1] >= 0 THEN Floor(x) ELSE Ceil(x)

RECURSIVE Factorial(_)
Factorial(n) == IF n = 0 THEN 1 ELSE n * Factorial(n - 1)

----------------------------------------------------------------------------
(* Arrays: sequences of numbers, index i of numpy being position i + 1. *)

RECURSIVE SumFrom(_, _)
SumFrom(h, i) == IF i > Len(h) THEN Zero ELSE RAdd(h[i], SumFrom(h, i + 1))

\* the builtin sum(array): 0 + a[0] + a[1] + ...
Sum(h) == SumFrom(h, 1)

Scale(h, w) == [i \in 1..Len(h) |-> RMul(h[i], w)]
DivBy(h, s) == [i \in 1..Len(h) |-> RDiv(h[i], s)]
AddArr(h, k) == [i \in 1..Len(h) |-> RAdd(h[i], k[i])]

\* np.zeros(n)
Zeros(n) == [i \in 1..n |-> Zero]

\* np.linspace(0, 1, n)
Linspace(n) == [i \in 1..n |-> IF n = 1 THEN Zero ELSE Frac(i - 1, n - 1)]

\* np.argmax: the first nan if there is one, else the first maximum (0-based)
ArgMax(h) ==
    IF \E i \in 1..Len(h) : IsNaN(h[i])
    THEN (CHOOSE i \in 1..Len(h) :
             IsNaN(h[i]) /\ \A j \in 1..(i - 1) : ~IsNaN(h[j])) - 1
    ELSE (CHOOSE i \in 1..Len(h) :
             /\ \A j \in 1..Len(h) : RLeq(h[j], h[i])
             /\ \A j \in 1..(i - 1) : RLess(h[j], h[i])) - 1

\* np.arange(start, stop) with step 1: start + k for 0 <= k < ceil(stop - start)
Arange(start, stop) ==
    LET n == Ceil(RSub(stop, start))
    IN  [k \in 1..(IF n > 0 THEN n ELSE 0) |-> RAdd(start, Num(k - 1))]

----------------------------------------------------------------------------
(* The pure functions of calc_ccf.py. *)

\* get_clonal_cns with the fraction of the first branch (local_cn - clonal_cn)
\* used in both branches
get_clonal_cns_same_frac(local_cn) ==
    IF RLess(One, local_cn)
    THEN LET clonal_cn == Num(Floor(local_cn))
             subclonal_cn == Num(Ceil(local_cn))
         IN  <<clonal_cn, subclonal_cn, RSub(local_cn, clonal_cn)>>
    ELSE LET clonal_cn == Num(Ceil(local_cn))
             subclonal_cn == Num(Floor(local_cn))
         IN  <<clonal_cn, subclonal_cn, RSub(local_cn, clonal_cn)>>

\* get_clonal_cns(local_cn): <<clonal_cn, subclonal_cn, subclonal_frac>>
get_clonal_cns(local_cn) ==
    IF RLess(One, local_cn)
    THEN LET clonal_cn == Num(Floor(local_cn))
             subclonal_cn == Num(Ceil(local_cn))
         IN  <<clonal_cn, subclonal_cn, RSub(local_cn, clonal_cn)>>
    ELSE LET clonal_cn == Num(Ceil(local_cn))
             subclonal_cn == Num(Floor(local_cn))
         IN  <<clonal_cn, subclonal_cn, RSub(clonal_cn, local_cn)>>

\* total_cn * purity + 2 * (1 - purity), the denominator of every allele fraction
AfDenominator(total_cn, purity) ==
    RAdd(RMul(total_cn, purity), RMul(Num(2), RSub(One, purity)))

\* scipy.stats.beta.pdf(x, a, b) for integers a, b >= 1:
\* x^(a-1) (1-x)^(b-1) / B(a, b) on [0, 1], 0 outside, nan at nan
beta_pdf(x, a, b) ==
    IF IsNaN(x) THEN NaN
    ELSE IF RLess(x, Zero) \/ RLess(One, x) THEN Zero
    ELSE RMul(Num(Factorial(a + b - 1) \div (Factorial(a - 1) * Factorial(b - 1))),
              RMul(RPow(x, a - 1), RPow(RSub(One, x), b - 1)))

\* scipy.stats.binom.pmf(k, n, p) for integers 0 <= k <= n:
\* C(n, k) p^k (1-p)^(n-k) for p in [0, 1], nan otherwise
binom_pmf(k, n, p) ==
    IF IsNaN(p) \/ RLess(p, Zero) \/ RLess(One, p) THEN NaN
    ELSE RMul(Num(Factorial(n) \div (Factorial(k) * Factorial(n - k))),
              RMul(RPow(p, k), RPow(RSub(One, p), n - k)))

\* calc_mult_weight(multiplicity, purity, total_count, alt_count, total_coverage)
calc_mult_weight(multiplicity, purity, total_count, alt_count, total_coverage) ==
    LET af_mode == RDiv(RMul(multiplicity, purity), AfDenominator(total_count, purity))
    IN  binom_pmf(alt_count, total_coverage, af_mode)

\* np.zeros(grid_size) with [0] = 1.
OneHot(grid_size) == [i \in 1..grid_size |-> IF i = 1 THEN One ELSE Zero]

\* The value a distribution builder returns: an ndarray (type "ndarray", the
\* array in dist) or a Python tuple (array, float) (type "tuple", the array in
\* dist and the float in mean).
NdArray(h) == [type |-> "ndarray", dist |-> h, mean |-> <<>>]
Tuple2(h, m) == [type |-> "tuple", dist |-> h, mean |-> <<m>>]

\* beta.pdf over the grid mapped to allele-fraction space, divided by its sum
BetaOverGrid(af_space, alt_cnt, ref_cnt) ==
    LET ccf_dist == [i \in 1..Len(af_space) |->
                        beta_pdf(af_space[i], alt_cnt + 1, ref_cnt + 1)]
    IN  DivBy(ccf_dist, Sum(ccf_dist))

\* ccf_dist_from_params(mult, total_cn, alt_cnt, ref_cnt, purity, grid_size)
ccf_dist_from_params(mult, total_cn, alt_cnt, ref_cnt, purity, grid_size) ==
    IF mult = 0
    THEN Tuple2(OneHot(grid_size), Zero)
    ELSE LET ccf_bins == Linspace(grid_size)
             ccf_domain_in_af_space ==
                 [i \in 1..grid_size |->
                     RDiv(RMul(RMul(ccf_bins[i], Num(mult)), purity),
                          AfDenominator(total_cn, purity))]
         IN  NdArray(BetaOverGrid(ccf_domain_in_af_space, alt_cnt, ref_cnt))

\* cp_dist_from_params(mult, total_cn, alt_cnt, ref_cnt, purity, grid_size)
cp_dist_from_params(mult, total_cn, alt_cnt, ref_cnt, purity, grid_size) ==
    IF mult = 0
    THEN Tuple2(OneHot(grid_size), Zero)
    ELSE LET ccf_bins == Linspace(grid_size)
             cp_domain_in_af_space ==
                 [i \in 1..grid_size |->
                     RDiv(RMul(ccf_bins[i], Num(mult)),
                          AfDenominator(total_cn, purity))]
         IN  NdArray(BetaOverGrid(cp_domain_in_af_space, alt_cnt, ref_cnt))

\* subc_ccf_dist1[int(subclonal_frac * 100):] = 0 on a copy of ccf_dist_m1
\* (a slice assignment: a start past the end changes nothing)
TruncateCopy1(ccf_dist_m1, subclonal_frac) ==
    LET cut == IntTrunc(RMul(subclonal_frac, Num(Hundred)))
    IN  [i \in 1..Len(ccf_dist_m1) |-> IF i - 1 >= cut THEN Zero ELSE ccf_dist_m1[i]]

\* the index of subc_ccf_dist2[int((1 - subclonal_frac) * 100)] = 0
Copy2Index(subclonal_frac) == IntTrunc(RMul(RSub(One, subclonal_frac), Num(Hundred)))

\* subc_ccf_dist2[int((1 - subclonal_frac) * 100)] = 0 on a copy of ccf_dist_m1
\* (an item assignment; the caller checks that the index is in range)
TruncateCopy2(ccf_dist_m1, subclonal_frac) ==
    [i \in 1..Len(ccf_dist_m1) |->
        IF i - 1 = Copy2Index(subclonal_frac) THEN Zero ELSE ccf_dist_m1[i]]

\* whether the item assignment of update_ccf_hist raises IndexError
RaisesIndexError(ccf_dist_m1, subclonal_frac) ==
    Copy2Index(subclonal_frac) >= Len(ccf_dist_m1)

\* one renormalized truncated copy added to the running histogram, weighted by
\* the binomial likelihood of its boundary fraction; skipped if the copy sums to 0
AddCopy(hist, copy, boundary, purity, total_cn, alt_cnt, total_cov) ==
    LET sum_dist == Sum(copy)
    IN  IF Truthy(sum_dist)
        THEN LET af_mode == RDiv(RMul(boundary, purity), AfDenominator(total_cn, purity))
             IN  AddArr(hist, Scale(DivBy(copy, sum_dist),
                                    binom_pmf(alt_cnt, total_cov, af_mode)))
        ELSE hist

\* update_ccf_hist(...) when the item assignment is in range
update_ccf_hist(subc_ccf_hist, subclonal_frac, ccf_dist_m1, purity, total_cn, alt_cnt, total_cov) ==
    LET subc_ccf_dist1 == TruncateCopy1(ccf_dist_m1, subclonal_frac)
        subc_ccf_dist2 == TruncateCopy2(ccf_dist_m1, subclonal_frac)
        after1 == AddCopy(subc_ccf_hist, subc_ccf_dist1, subclonal_frac,
                          purity, total_cn, alt_cnt, total_cov)
    IN  AddCopy(after1, subc_ccf_dist2, RSub(One, subclonal_frac),
                purity, total_cn, alt_cnt, total_cov)

----------------------------------------------------------------------------
(* calc_ccf as a pipeline: one action per block of its body. *)

VARIABLES
    pc,               \* the next block of calc_ccf (or of the direct call)
    args,             \* the arguments of the call
    cn_a1,            \* <<clonal_cn_a1, subclonal_cn_a1, subclonal_frac_a1>>
    cn_a2,            \* <<clonal_cn_a2, subclonal_cn_a2, subclonal_frac_a2>>
    total_cov,
    total_cn,
    ccf_dist_m1,
    ccf_mode,
    p_subclonal,
    p_clonal,
    mults,            \* the multiplicities handed to calc_mult_weight, in order
    subc_ccf_hist,
    applied,          \* one record per update_ccf_hist call: its fraction and
                      \* its two truncated copies before renormalization
    clonal_ccf_hist,
    ccf_hist,
    ret               \* what the call returned

vars == <<pc, args, cn_a1, cn_a2, total_cov, total_cn, ccf_dist_m1, ccf_mode,
          p_subclonal, p_clonal, mults, subc_ccf_hist, applied,
          clonal_ccf_hist, ccf_hist, ret>>

\* a local that is not assigned yet
Unset == <<>>

\* The inputs the model draws from.  Half-integer copy numbers at purity 1/2
\* and 1 with every pair of read counts of total coverage <= MaxCov; and one
\* pair of copy numbers within 1/100 of an integer (the only fractions for
\* which update_ccf_hist's indices fit a grid of a few bins) at purity 1 with
\* at most one read, which keeps the exact weights (powers of k/200) within
\* TLC's 32-bit integers.
HalfCNs == {Frac(k, 2) : k \in 0..MaxCNHalves}
ReadCounts == {c \in (0..MaxCov) \X (0..MaxCov) : c[1] + c[2] <= MaxCov}
HalfInputs == HalfCNs \X HalfCNs \X {Frac(1, 2), One} \X ReadCounts
NearInputs ==
    {<<Frac(1, 100), Frac(199, 100), One, c>> : c \in {<<0, 0>>, <<1, 0>>, <<0, 1>>}}

Init ==
    /\ pc = "start"
    /\ \E in \in HalfInputs \cup NearInputs, grid_size \in 1..MaxGrid, cp \in BOOLEAN :
          args = [local_cn_a1 |-> in[1], local_cn_a2 |-> in[2],
                  alt_cnt |-> in[4][1], ref_cnt |-> in[4][2],
                  purity |-> in[3], grid_size |-> grid_size, cp |-> cp]
    /\ cn_a1 = Unset /\ cn_a2 = Unset /\ total_cov = Unset /\ total_cn = Unset
    /\ ccf_dist_m1 = Unset /\ ccf_mode = Unset /\ p_subclonal = Unset
    /\ p_clonal = Unset /\ mults = Unset /\ subc_ccf_hist = Unset
    /\ applied = <<>> /\ clonal_ccf_hist = Unset /\ ccf_hist = Unset
    /\ ret = Unset

\* lines 23-27
Decompose ==
    /\ pc = "start"
    /\ cn_a1' = get_clonal_cns(args.local_cn_a1)
    /\ cn_a2' = get_clonal_cns(args.local_cn_a2)
    /\ total_cov' = args.alt_cnt + args.ref_cnt
    /\ total_cn' = RAdd(args.local_cn_a1, args.local_cn_a2)
    /\ pc' = "m1"
    /\ UNCHANGED <<args, ccf_dist_m1, ccf_mode, p_subclonal, p_clonal, mults,
                   subc_ccf_hist, applied, clonal_ccf_hist, ccf_hist, ret>>

\* np.argmax(ccf_dist_m1) / 100.
ModeOf(dist) == Frac(ArgMax(dist), Hundred)

\* lines 30-36
BuildM1 ==
    /\ pc = "m1"
    /\ LET m1 == IF args.cp
                 THEN cp_dist_from_params(1, total_cn, args.alt_cnt, args.ref_cnt,
                                          args.purity, args.grid_size).dist
                 ELSE ccf_dist_from_params(1, total_cn, args.alt_cnt, args.ref_cnt,
                                           args.purity, args.grid_size).dist
           mode == ModeOf(m1)
           af_mode == RDiv(RMul(mode, args.purity), AfDenominator(total_cn, args.purity))
       IN  /\ ccf_dist_m1' = m1
           /\ ccf_mode' = mode
           /\ p_subclonal' = binom_pmf(args.alt_cnt, total_cov, af_mode)
    /\ pc' = "weights"
    /\ UNCHANGED <<args, cn_a1, cn_a2, total_cov, total_cn, p_clonal, mults,
                   subc_ccf_hist, applied, clonal_ccf_hist, ccf_hist, ret>>

\* the first loop started at multiplicity 1: np.arange(1, clonal_cn_a2 + 1)
IntegerMults_from_one(clonal_cn) == Arange(Num(1), RAdd(clonal_cn, One))

\* the multiplicities of the first loop: np.arange(2, clonal_cn_a2 + 1)
IntegerMults(clonal_cn) == Arange(Num(2), RAdd(clonal_cn, One))

\* a subclonal loop started at the fraction itself:
\* np.arange(subclonal_frac, subclonal_cn)
ShiftMults_from_frac(cn) ==
    IF Truthy(cn[3]) THEN Arange(cn[3], cn[2]) ELSE <<>>

\* the multiplicities of a subclonal loop:
\* np.arange(subclonal_frac + 1, subclonal_cn) if subclonal_frac, else none
ShiftMults(cn) ==
    IF Truthy(cn[3]) THEN Arange(RAdd(cn[3], One), cn[2]) ELSE <<>>

RECURSIVE WeightSum(_, _, _, _, _)
WeightSum(ms, purity, total, alt, cov) ==
    IF ms = <<>> THEN Zero
    ELSE RAdd(WeightSum(SubSeq(ms, 1, Len(ms) - 1), purity, total, alt, cov),
              calc_mult_weight(ms[Len(ms)], purity, total, alt, cov))

\* lines 37-48
ClonalWeights ==
    /\ pc = "weights"
    /\ LET ms == IntegerMults(cn_a2[1]) \o ShiftMults(cn_a1) \o ShiftMults(cn_a2)
       IN  /\ mults' = ms
           /\ p_clonal' = WeightSum(ms, args.purity, total_cn, args.alt_cnt, total_cov)
    /\ pc' = "baseline"
    /\ UNCHANGED <<args, cn_a1, cn_a2, total_cov, total_cn, ccf_dist_m1, ccf_mode,
                   p_subclonal, subc_ccf_hist, applied, clonal_ccf_hist, ccf_hist, ret>>

\* lines 51-54
Baseline ==
    /\ pc = "baseline"
    /\ subc_ccf_hist' =
          IF RLeq(One, args.local_cn_a2)
          THEN AddArr(Zeros(args.grid_size), Scale(ccf_dist_m1, p_subclonal))
          ELSE Zeros(args.grid_size)
    /\ pc' = "update_a1"
    /\ UNCHANGED <<args, cn_a1, cn_a2, total_cov, total_cn, ccf_dist_m1, ccf_mode,
                   p_subclonal, p_clonal, mults, applied, clonal_ccf_hist,
                   ccf_hist, ret>>

\* update_ccf_hist called without the `if subclonal_frac` guard
Update_unguarded(cn, next) ==
    IF RaisesIndexError(ccf_dist_m1, cn[3])
    THEN /\ pc' = "IndexError"
         /\ UNCHANGED <<subc_ccf_hist, applied>>
    ELSE /\ pc' = next
         /\ subc_ccf_hist' = update_ccf_hist(subc_ccf_hist, cn[3], ccf_dist_m1,
                                 args.purity, total_cn, args.alt_cnt, total_cov)
         /\ applied' = Append(applied,
                          [subclonal_frac |-> cn[3],
                           subc_ccf_dist1 |-> TruncateCopy1(ccf_dist_m1, cn[3]),
                           subc_ccf_dist2 |-> TruncateCopy2(ccf_dist_m1, cn[3])])

\* if subclonal_frac: subc_ccf_hist = update_ccf_hist(...), going to `next`;
\* an IndexError of the item assignment ends calc_ccf
Update(cn, next) ==
    IF ~Truthy(cn[3])
    THEN /\ pc' = next
         /\ UNCHANGED <<subc_ccf_hist, applied>>
    ELSE IF RaisesIndexError(ccf_dist_m1, cn[3])
    THEN /\ pc' = "IndexError"
         /\ UNCHANGED <<subc_ccf_hist, applied>>
    ELSE /\ pc' = next
         /\ subc_ccf_hist' = update_ccf_hist(subc_ccf_hist, cn[3], ccf_dist_m1,
                                 args.purity, total_cn, args.alt_cnt, total_cov)
         /\ applied' = Append(applied,
                          [subclonal_frac |-> cn[3],
                           subc_ccf_dist1 |-> TruncateCopy1(ccf_dist_m1, cn[3]),
                           subc_ccf_dist2 |-> TruncateCopy2(ccf_dist_m1, cn[3])])

\* lines 56-57
UpdateA1 ==
    /\ pc = "update_a1"
    /\ Update(cn_a1, "update_a2")
    /\ UNCHANGED <<args, cn_a1, cn_a2, total_cov, total_cn, ccf_dist_m1, ccf_mode,
                   p_subclonal, p_clonal, mults, clonal_ccf_hist, ccf_hist, ret>>

\* lines 58-59
UpdateA2 ==
    /\ pc = "update_a2"
    /\ Update(cn_a2, "normalize")
    /\ UNCHANGED <<args, cn_a1, cn_a2, total_cov, total_cn, ccf_dist_m1, ccf_mode,
                   p_subclonal, p_clonal, mults, clonal_ccf_hist, ccf_hist, ret>>

\* line 60
NormalizeSubclonal ==
    /\ pc = "normalize"
    /\ subc_ccf_hist' = DivBy(subc_ccf_hist, Sum(subc_ccf_hist))
    /\ pc' = "clonal"
    /\ UNCHANGED <<args, cn_a1, cn_a2, total_cov, total_cn, ccf_dist_m1, ccf_mode,
                   p_subclonal, p_clonal, mults, applied, clonal_ccf_hist,
                   ccf_hist, ret>>

\* lines 62-64
ClonalBranch ==
    /\ pc = "clonal"
    /\ LET bins == Linspace(args.grid_size)
           pdf == [i \in 1..args.grid_size |-> beta_pdf(bins[i], args.alt_cnt + 1, 1)]
       IN  clonal_ccf_hist' = DivBy(pdf, Sum(pdf))
    /\ pc' = "mix"
    /\ UNCHANGED <<args, cn_a1, cn_a2, total_cov, total_cn, ccf_dist_m1, ccf_mode,
                   p_subclonal, p_clonal, mults, subc_ccf_hist, applied,
                   ccf_hist, ret>>

\* lines 66-69
Mixture ==
    /\ pc = "mix"
    /\ LET mix == AddArr(Scale(subc_ccf_hist, p_subclonal),
                         Scale(clonal_ccf_hist, p_clonal))
       IN  /\ ccf_hist' = DivBy(mix, Sum(mix))
           /\ ret' = DivBy(mix, Sum(mix))
    /\ pc' = "done"
    /\ UNCHANGED <<args, cn_a1, cn_a2, total_cov, total_cn, ccf_dist_m1, ccf_mode,
                   p_subclonal, p_clonal, mults, subc_ccf_hist, applied,
                   clonal_ccf_hist>>

Next ==
    \/ Decompose
    \/ BuildM1
    \/ ClonalWeights
    \/ Baseline
    \/ UpdateA1
    \/ UpdateA2
    \/ NormalizeSubclonal
    \/ ClonalBranch
    \/ Mixture

Spec == Init /\ [][Next]_vars

----------------------------------------------------------------------------
(* A direct call of a distribution builder, with any multiplicity. *)

InitDist ==
    /\ pc = "call"
    /\ \E mult \in 0..MaxMult, cn \in HalfCNs, cnt \in ReadCounts,
          purity \in {Frac(1, 2), One}, grid_size \in 1..MaxGrid, cp \in BOOLEAN :
          args = [mult |-> mult, total_cn |-> cn,
                  alt_cnt |-> cnt[1], ref_cnt |-> cnt[2],
                  purity |-> purity, grid_size |-> grid_size, cp |-> cp]
    /\ cn_a1 = Unset /\ cn_a2 = Unset /\ total_cov = Unset /\ total_cn = Unset
    /\ ccf_dist_m1 = Unset /\ ccf_mode = Unset /\ p_subclonal = Unset
    /\ p_clonal = Unset /\ mults = Unset /\ subc_ccf_hist = Unset
    /\ applied = <<>> /\ clonal_ccf_hist = Unset /\ ccf_hist = Unset
    /\ ret = Unset

\* lines 108-131 (cp = False) and 134-158 (cp = True)
CallDist ==
    /\ pc = "call"
    /\ ret' = IF args.cp
              THEN cp_dist_from_params(args.mult, args.total_cn, args.alt_cnt,
                                       args.ref_cnt, args.purity, args.grid_size)
              ELSE ccf_dist_from_params(args.mult, args.total_cn, args.alt_cnt,
                                        args.ref_cnt, args.purity, args.grid_size)
    /\ pc' = "returned"
    /\ UNCHANGED <<args, cn_a1, cn_a2, total_cov, total_cn, ccf_dist_m1, ccf_mode,
                   p_subclonal, p_clonal, mults, subc_ccf_hist, applied,
                   clonal_ccf_hist, ccf_hist>>

NextDist == CallDist

SpecDist == InitDist /\ [][NextDist]_vars

----------------------------------------------------------------------------
(* Properties. *)

HasNaN(h) == \E i \in 1..Len(h) : IsNaN(h[i])
Decomposed == pc # "start"
PastM1 == pc \notin {"start", "m1"}
PastWeights == pc \notin {"start", "m1", "weights"}

\* C1: calc_ccf returns, for every valid input, a histogram of grid_size
\* entries, each >= 0, summing to 1 (no normalizing division is by a zero sum).
C1_ReturnsDistribution ==
    pc = "done" =>
        /\ Len(ccf_hist) = args.grid_size
        /\ \A i \in 1..Len(ccf_hist) : RLeq(Zero, ccf_hist[i])
        /\ Sum(ccf_hist) = One

\* C2: with total_cn = 0 and purity = 1 (allele-fraction denominator 0),
\* calc_ccf does not return a histogram containing NaN.
C2_NoNaNOnZeroDenominator ==
    (pc = "done" /\ total_cn = Zero /\ args.purity = One) => ~HasNaN(ccf_hist)

\* what C3 says of one decomposition of local_cn
GoodDecomposition(local_cn, cn) ==
    /\ IsInteger(cn[1]) /\ cn[1][1] >= 0
    /\ IsInteger(cn[2]) /\ cn[2][1] >= 0
    /\ Abs(cn[1][1] - cn[2][1]) <= 1
    /\ RLeq(Zero, cn[3]) /\ RLeq(cn[3], One)
    /\ IsInteger(local_cn) => (cn[3] = Zero /\ cn[1] = local_cn /\ cn[2] = local_cn)

\* C3: get_clonal_cns(cn) returns non-negative integers clonal_cn and
\* subclonal_cn differing by at most 1 and a fraction in [0,1]; for an integer
\* cn the fraction is 0 and both copy numbers are cn.
C3_Decomposition ==
    Decomposed =>
        /\ GoodDecomposition(args.local_cn_a1, cn_a1)
        /\ GoodDecomposition(args.local_cn_a2, cn_a2)

\* C3 witness: a fractional copy number below 1 and one above 1
C3_Witness ==
    /\ Decomposed
    /\ args.local_cn_a1 = Frac(1, 2) /\ cn_a1 = <<One, Zero, Frac(1, 2)>>
    /\ args.local_cn_a2 = Frac(5, 2) /\ cn_a2 = <<Num(2), Num(3), Frac(1, 2)>>

\* C4: a distribution builder called with multiplicity 0 returns a one-hot
\* array (1 at index 0), a single histogram as for a non-zero multiplicity.
C4_ZeroMultOneHot ==
    (pc = "returned" /\ args.mult = 0) => ret = NdArray(OneHot(args.grid_size))

\* the major allele's clonal copy number is <= 1 and no allele has a fraction
NoClonalMultiplicity == cn_a2[1][1] <= 1 /\ cn_a1[3] = Zero /\ cn_a2[3] = Zero

\* C5: if the major allele's clonal copy number is <= 1 and neither allele has
\* a subclonal fraction, no multiplicity is weighted, p_clonal = 0 and the
\* result is the normalized subclonal branch.
C5_OnlySubclonalBranch ==
    /\ (PastWeights /\ NoClonalMultiplicity) => (mults = <<>> /\ p_clonal = Zero)
    /\ (pc = "done" /\ NoClonalMultiplicity) => ccf_hist = subc_ccf_hist

\* C5 witness: local_cn_a1 = local_cn_a2 = 1 returns a proper histogram
C5_Witness ==
    /\ pc = "done"
    /\ args.local_cn_a1 = One /\ args.local_cn_a2 = One
    /\ args.alt_cnt = 1 /\ args.grid_size = MaxGrid
    /\ ~HasNaN(ccf_hist) /\ Sum(ccf_hist) = One /\ ccf_hist = subc_ccf_hist

BothIntegers == IsInteger(args.local_cn_a1) /\ IsInteger(args.local_cn_a2)

\* C6: with both local copy numbers integers update_ccf_hist is never applied,
\* and the unnormalized subclonal histogram is ccf_dist_m1 * p_subclonal if
\* local_cn_a2 >= 1 and all zeros otherwise.
C6_BaselineOnly ==
    BothIntegers =>
        /\ pc # "IndexError"
        /\ applied = <<>>
        /\ pc = "normalize" =>
              subc_ccf_hist = IF args.local_cn_a2[1] >= 1
                              THEN Scale(ccf_dist_m1, p_subclonal)
                              ELSE Zeros(args.grid_size)

\* C6 witness: integer copy numbers with a non-zero baseline term
C6_Witness ==
    /\ pc = "normalize" /\ BothIntegers
    /\ args.local_cn_a2 = Num(2)
    /\ \E i \in 1..Len(subc_ccf_hist) : RLess(Zero, subc_ccf_hist[i])

\* copy is dist with every bin at index >= cut zeroed and the rest unchanged
TailZeroed(copy, dist, cut) ==
    \A i \in 1..Len(dist) : copy[i] = IF i - 1 >= cut THEN Zero ELSE dist[i]

\* C7: in update_ccf_hist both truncated copies have a whole tail zeroed: the
\* first from index floor(f*100), the second from index floor((1-f)*100).
C7_BothTailsZeroed ==
    \A k \in 1..Len(applied) :
        LET f == applied[k].subclonal_frac
        IN  /\ TailZeroed(applied[k].subc_ccf_dist1, ccf_dist_m1,
                          Floor(RMul(f, Num(Hundred))))
            /\ TailZeroed(applied[k].subc_ccf_dist2, ccf_dist_m1,
                          Floor(RMul(RSub(One, f), Num(Hundred))))

Count(seq, v) == Cardinality({i \in 1..Len(seq) : seq[i] = v})
Indicator(b) == IF b THEN 1 ELSE 0

\* v is one of the integers 2..clonal_cn_a2
InIntegerLoop(v) == IsInteger(v) /\ 2 <= v[1] /\ v[1] <= cn_a2[1][1]

\* the values the claims speak of: the integers up to the largest copy number
\* and their shifts by the two subclonal fractions
Candidates ==
    {RAdd(Num(j), f) : j \in 0..(MaxCNHalves + 1), f \in {Zero, cn_a1[3], cn_a2[3]}}

\* C8 as claimed: the weighted multiplicities are the integers 2..clonal_cn_a2
\* and, for each allele with a non-zero fraction f, the integers m with
\* f < m < subclonal_cn; no non-integer multiplicity is weighted.
C8_IntegerMultiplicities ==
    PastWeights =>
        /\ \A i \in 1..Len(mults) : IsInteger(mults[i])
        /\ \A v \in Candidates :
              Count(mults, v) =
                  Indicator(InIntegerLoop(v))
                  + Indicator(cn_a1[3] # Zero /\ IsInteger(v)
                              /\ RLess(cn_a1[3], v) /\ RLess(v, cn_a1[2]))
                  + Indicator(cn_a2[3] # Zero /\ IsInteger(v)
                              /\ RLess(cn_a2[3], v) /\ RLess(v, cn_a2[2]))

\* v = f + k for an integer k >= 1, and v < subclonal_cn, f being non-zero
InShiftLoop(cn, v) ==
    /\ cn[3] # Zero
    /\ IsInteger(RSub(v, cn[3])) /\ RSub(v, cn[3])[1] >= 1
    /\ RLess(v, cn[2])

\* C8 amended: the weighted multiplicities are the integers 2..clonal_cn_a2
\* and, for each allele with a non-zero fraction f, the values f + 1, f + 2, ...
\* below subclonal_cn (non-integers); nothing else is weighted, and p_clonal
\* is 0 when nothing is.
C8_ShiftedMultiplicities ==
    PastWeights =>
        /\ \A i \in 1..Len(mults) : mults[i] \in Candidates
        /\ \A v \in Candidates :
              Count(mults, v) =
                  Indicator(InIntegerLoop(v))
                  + Indicator(InShiftLoop(cn_a1, v))
                  + Indicator(InShiftLoop(cn_a2, v))
        /\ mults = <<>> => p_clonal = Zero

\* C8 witness: integer multiplicities 2 and the shifted 3/2 and 5/2 of
\* local_cn_a2 = 5/2, with a non-zero p_clonal
C8_Witness ==
    /\ PastWeights
    /\ args.local_cn_a1 = One /\ args.local_cn_a2 = Frac(5, 2)
    /\ mults = <<Num(2), Frac(3, 2), Frac(5, 2)>>
    /\ RLess(Zero, p_clonal)

\* C9: ccf_mode is the grid value i/(grid_size-1) of the peak bin i of the
\* multiplicity-1 histogram, and lies in [0,1].
C9_ModeIsGridValue ==
    PastM1 =>
        /\ ccf_mode = Linspace(args.grid_size)[ArgMax(ccf_dist_m1) + 1]
        /\ RLeq(Zero, ccf_mode) /\ RLeq(ccf_mode, One)

\* C10: update_ccf_hist never writes outside the histogram, so calc_ccf never
\* ends with an IndexError.
C10_NoIndexError == pc # "IndexError"

=============================================================================
